---- MODULE Spec2Model ----
(***************************************************************************)
(* Model of the meal planner: provider selection at import of              *)
(* meal_generator.py, the "Generate Meal Plan" button handler of app.py,   *)
(* build_llm_prompt / generate_meal_plan, and the MealPlan schema of       *)
(* models.py.                                                              *)
(***************************************************************************)
EXTENDS Integers, Sequences, FiniteSets, TLC

VARIABLES
    installed,         \* which provider libraries can be imported
    environ,           \* os.environ: the two credential variables
    ctor,              \* how each provider's constructor answers the credential
    pc,                \* position of the process: start / select_* / ready / crashed
    client,            \* meal_generator.client
    MODEL_NAME,        \* meal_generator.MODEL_NAME
    constructed,       \* providers whose client constructor has been called
    attempted,         \* providers whose try-block has been entered
    import_error,      \* exception that escaped the import of meal_generator
    user_profile,      \* app.py: the UserProfile built by the last button press
    call,              \* the last generate_meal_plan call: what it did and returned
    ui                 \* app.py: what the last button press displayed

vars == <<installed, environ, ctor, pc, client, MODEL_NAME, constructed,
          attempted, import_error, user_profile, call, ui>>

\* Python's None, for the variables that hold a string or None.
None == "<None>"

(***************************************************************************)
(* Provider selection: meal_generator.py, module level.                    *)
(***************************************************************************)

Providers == <<"OpenAI", "Anthropic">>

OPENAI_MODEL == "gpt-3.5-turbo"
ANTHROPIC_MODEL == "claude-3-sonnet-20240229"

\* Values os.getenv can return for a credential variable.
KeyValues == {None, "", "sk-test"}

\* Ways a client constructor can end: it returns, it raises the provider's
\* own error class, or it raises some other exception class.
CtorOutcomes == {"ok", "ProviderError", "TypeError"}

\* `not key`: None and the empty string are both falsy.
Falsy(key) == key = None \/ key = ""

\* Lines 1-28: the imports and the two globals.  `from openai import OpenAI`
\* (line 5) and `from openai import OpenAIError` (line 25) stand outside
\* every try block.
ImportModule ==
    /\ pc = "start"
    /\ IF installed.openai
         THEN /\ pc' = "select_openai"
              /\ import_error' = None
         ELSE /\ pc' = "crashed"
              /\ import_error' = "ImportError"
    /\ client' = None
    /\ MODEL_NAME' = None
    /\ UNCHANGED <<installed, environ, ctor, constructed, attempted,
                   user_profile, call, ui>>

\* Lines 30-48: try OpenAI; except (ImportError, ValueError, OpenAIError).
SelectOpenAI ==
    /\ pc = "select_openai"
    /\ attempted' = attempted \cup {"OpenAI"}
    /\ IF Falsy(environ.OPENAI_API_KEY)
         THEN \* line 35 raises ValueError, caught at line 43
              /\ client' = None
              /\ MODEL_NAME' = None
              /\ pc' = "select_anthropic"
              /\ UNCHANGED <<constructed, import_error>>
         ELSE /\ constructed' = constructed \cup {"OpenAI"}
              /\ CASE ctor.OpenAI = "ok" ->
                        /\ client' = "OpenAI"
                        /\ MODEL_NAME' = OPENAI_MODEL
                        /\ pc' = "ready"
                        /\ UNCHANGED import_error
                   [] ctor.OpenAI = "ProviderError" ->
                        /\ client' = None
                        /\ MODEL_NAME' = None
                        /\ pc' = "select_anthropic"
                        /\ UNCHANGED import_error
                   [] OTHER ->
                        \* not in the except tuple of line 43
                        /\ client' = None
                        /\ MODEL_NAME' = None
                        /\ pc' = "crashed"
                        /\ import_error' = ctor.OpenAI
    /\ UNCHANGED <<installed, environ, ctor, user_profile, call, ui>>

\* Lines 50-77: the Anthropic fallback inside the except block.
SelectAnthropic ==
    /\ pc = "select_anthropic"
    /\ attempted' = attempted \cup {"Anthropic"}
    /\ pc' = "ready"
    /\ IF ~installed.anthropic
         THEN \* line 53 raises ImportError, caught at line 64
              /\ UNCHANGED <<client, MODEL_NAME, constructed>>
         ELSE IF Falsy(environ.ANTHROPIC_API_KEY)
         THEN \* line 58 raises ValueError, caught at line 68
              /\ client' = None
              /\ MODEL_NAME' = None
              /\ UNCHANGED constructed
         ELSE /\ constructed' = constructed \cup {"Anthropic"}
              /\ IF ctor.Anthropic = "ok"
                   THEN /\ client' = "Anthropic"
                        /\ MODEL_NAME' = ANTHROPIC_MODEL
                   ELSE \* AnthropicError at line 68, anything else at line 73
                        /\ client' = None
                        /\ MODEL_NAME' = None
    /\ UNCHANGED <<installed, environ, ctor, import_error, user_profile, call, ui>>

(***************************************************************************)
(* app.py: the form and parse_list_input.                                  *)
(***************************************************************************)

\* Optional[int]: <<>> is None, <<n>> is the integer n.
NoInt == <<>>

\* One character of a Python string.
CharAt(s, i) == SubSeq(s, i, i)

\* str.strip(): drop leading and trailing whitespace.
RECURSIVE strip(_)
strip(s) ==
    IF Len(s) = 0 THEN s
    ELSE IF CharAt(s, 1) = " " THEN strip(SubSeq(s, 2, Len(s)))
    ELSE IF CharAt(s, Len(s)) = " " THEN strip(SubSeq(s, 1, Len(s) - 1))
    ELSE s

\* str.split(','): the pieces between commas; "" splits into [""].
RECURSIVE split(_)
split(s) ==
    IF \A i \in 1..Len(s) : CharAt(s, i) # ","
      THEN <<s>>
      ELSE LET i == CHOOSE k \in 1..Len(s) :
                      /\ CharAt(s, k) = ","
                      /\ \A j \in 1..(k - 1) : CharAt(s, j) # ","
           IN  <<SubSeq(s, 1, i - 1)>> \o split(SubSeq(s, i + 1, Len(s)))

\* [item.strip() for item in items if item.strip()]
RECURSIVE stripped_nonempty(_)
stripped_nonempty(items) ==
    IF items = <<>> THEN <<>>
    ELSE LET item == strip(Head(items))
         IN  (IF item = "" THEN <<>> ELSE <<item>>) \o stripped_nonempty(Tail(items))

\* app.py lines 57-58.
parse_list_input(input_string) == stripped_nonempty(split(input_string))

\* The widgets of lines 44-54, as one submitted form.
Form(dr, al, di, go, tc, cu, cx, ct) ==
    [dietary_restrictions_input |-> dr, allergies_input |-> al,
     dislikes_input |-> di, goals_input |-> go, target_calories |-> tc,
     cuisine_types_input |-> cu, complexity |-> cx, cook_time_limit |-> ct]

\* Sample form submissions covering empty, separator-only, blank-padded and
\* filled text inputs, and unset / zero / positive number inputs.
FormSubmissions ==
    { Form("", "", "", "", tc, "", "Any", NoInt) : tc \in {NoInt, <<0>>, <<1800>>} }
    \cup { Form(dr, "", "", "", NoInt, "", "Any", NoInt) : dr \in {",", " ", " , "} }
    \cup { Form("", "", "", go, NoInt, cu, "Any", ct) :
              go \in {" ", "weight loss"}, cu \in {"", " , "}, ct \in {NoInt, <<0>>} }
    \cup { Form("vegetarian", "", "olives", "weight loss", <<1800>>, "", cx, NoInt) :
              cx \in {"Any", "Medium"} }
    \cup { Form("vegetarian, gluten-free", al, "mushrooms,olives", "", tc,
                "italian, mexican", "Simple", <<30>>) :
              al \in {" peanuts ", "peanuts,,shellfish"}, tc \in {NoInt, <<1800>>} }

\* `x if x and x > 0 else None` (lines 74 and 78).
PositiveOrNone(x) == IF x # NoInt /\ x[1] > 0 THEN x ELSE NoInt

\* Lines 69-80: UserProfile(...) built from the form.
ProfileOf(form) ==
    [dietary_restrictions |-> parse_list_input(form.dietary_restrictions_input),
     allergies |-> parse_list_input(form.allergies_input),
     dislikes |-> parse_list_input(form.dislikes_input),
     goals |-> parse_list_input(form.goals_input),
     target_calories |-> PositiveOrNone(form.target_calories),
     preferences |->
        [cuisine_types |-> parse_list_input(form.cuisine_types_input),
         complexity |-> IF form.complexity # "Any" THEN form.complexity ELSE None,
         cook_time_limit_minutes |-> PositiveOrNone(form.cook_time_limit)]]

\* Line 65: the guard on the raw text inputs.
NothingFilledIn(form) ==
    /\ form.dietary_restrictions_input = ""
    /\ form.allergies_input = ""
    /\ form.dislikes_input = ""
    /\ form.goals_input = ""

(***************************************************************************)
(* build_llm_prompt: meal_generator.py lines 93-116.                       *)
(***************************************************************************)

\* ', '.join(items)
RECURSIVE join(_)
join(items) ==
    IF items = <<>> THEN ""
    ELSE IF Len(items) = 1 THEN items[1]
    ELSE items[1] \o ", " \o join(Tail(items))

\* What MealPlan.model_json_schema(indent=2) does (line 113) depends on the
\* installed pydantic: it returns the schema, or it raises (pydantic 2's
\* model_json_schema takes no `indent` argument: TypeError; pydantic 1 has no
\* such method: AttributeError).
SchemaOutcomes == {"schema", "TypeError"}

SCHEMA_TEXT == "{MealPlan schema}"

\* The markdown code fence of line 113 (three backquotes, which a TLA+ string
\* cannot hold).
FENCE == "'''"

PROMPT_HEAD ==
    "Generate a personalized 7-day meal plan (Monday to Sunday) for a user with the following profile:\n"

PROMPT_TAIL_1 ==
    "\nPlease provide a plan including Breakfast, Lunch, and Dinner for each day."
    \o " For each meal, provide a 'meal_name' and a 'recipe' with simple, easy-to-follow instructions."
    \o " Ensure the plan strictly adheres to all dietary restrictions, allergies, and dislikes."
    \o " Structure the output as a valid JSON object following this Pydantic model structure:\n"

PROMPT_TAIL_2 ==
    "Ensure the final output is ONLY the JSON object, without any introductory text or explanations."

\* Lines 96-107: the profile lines, in source order.
ProfileLines(profile) ==
    <<"- Dietary Restrictions: "
        \o (IF profile.dietary_restrictions # <<>>
              THEN join(profile.dietary_restrictions) ELSE "None") \o "\n">>
    \o <<"- Allergies: "
        \o (IF profile.allergies # <<>> THEN join(profile.allergies) ELSE "None") \o "\n">>
    \o <<"- Dislikes: "
        \o (IF profile.dislikes # <<>> THEN join(profile.dislikes) ELSE "None") \o "\n">>
    \o <<"- Goals: "
        \o (IF profile.goals # <<>> THEN join(profile.goals) ELSE "None specified") \o "\n">>
    \o (IF profile.target_calories # NoInt /\ profile.target_calories[1] # 0
          THEN <<"- Target Daily Calories: Approximately "
                 \o ToString(profile.target_calories[1]) \o " kcal\n">>
          ELSE <<>>)
    \o (IF profile.preferences.cuisine_types # <<>>
          THEN <<"- Preferred Cuisines: " \o join(profile.preferences.cuisine_types) \o "\n">>
          ELSE <<>>)
    \o (IF profile.preferences.complexity # None /\ profile.preferences.complexity # ""
          THEN <<"- Desired Complexity: " \o profile.preferences.complexity \o "\n">>
          ELSE <<>>)
    \o (IF profile.preferences.cook_time_limit_minutes # NoInt
           /\ profile.preferences.cook_time_limit_minutes[1] # 0
          THEN <<"- Max Cook Time Per Meal: "
                 \o ToString(profile.preferences.cook_time_limit_minutes[1]) \o " minutes\n">>
          ELSE <<>>)

RECURSIVE concat(_)
concat(pieces) == IF pieces = <<>> THEN "" ELSE Head(pieces) \o concat(Tail(pieces))

\* The call as a whole: the exception it raises (None if it returns) and the
\* string it returns.
build_llm_prompt(profile, schema) ==
    IF schema # "schema"
      THEN [exc |-> schema, value |-> ""]
      ELSE [exc |-> None,
            value |-> PROMPT_HEAD \o concat(ProfileLines(profile)) \o PROMPT_TAIL_1
                      \o FENCE \o "json\n" \o SCHEMA_TEXT \o "\n" \o FENCE \o "\n"
                      \o PROMPT_TAIL_2]

(***************************************************************************)
(* json.loads / json.dumps on the provider's reply.  The reply text is     *)
(* held as its sequence of lexical tokens.                                 *)
(***************************************************************************)

\* The interpreter's recursion limit, scaled down: the deepest nesting the
\* pure-Python encoder behind json.dumps(..., indent=2) serialises before it
\* raises RecursionError.  The C scanner behind json.loads has its own, higher
\* limit (one level more here) and raises RecursionError beyond that.
RecursionLimit == 4

Tok(t) == [t |-> t, s |-> ""]
StrTok(s) == [t |-> "str", s |-> s]
\* Text that is no JSON token: prose, a markdown fence.
Word(s) == [t |-> "word", s |-> s]

\* Decoded JSON values: dict (m: key -> value), list (m: sequence), str, null.
JObj(m) == [ty |-> "obj", s |-> "", m |-> m]
JArr(m) == [ty |-> "arr", s |-> "", m |-> m]
JStr(s) == [ty |-> "str", s |-> s, m |-> <<>>]
JNull == [ty |-> "null", s |-> "", m |-> <<>>]

Failed(exc) == [exc |-> exc, val |-> JNull, next |-> 0]
Parsed(v, next) == [exc |-> None, val |-> v, next |-> next]

RECURSIVE ParseValue(_, _, _), ParseMembers(_, _, _, _, _), ParseElements(_, _, _, _, _)

\* One JSON value starting at token i, at nesting depth `depth`.
ParseValue(toks, i, depth) ==
    IF i > Len(toks) THEN Failed("JSONDecodeError")
    ELSE CASE toks[i].t = "str" -> Parsed(JStr(toks[i].s), i + 1)
           [] toks[i].t = "null" -> Parsed(JNull, i + 1)
           [] toks[i].t = "{" ->
                IF depth >= RecursionLimit + 1 THEN Failed("RecursionError")
                ELSE ParseMembers(toks, i + 1, <<>>, depth + 1, TRUE)
           [] toks[i].t = "[" ->
                IF depth >= RecursionLimit + 1 THEN Failed("RecursionError")
                ELSE ParseElements(toks, i + 1, <<>>, depth + 1, TRUE)
           [] OTHER -> Failed("JSONDecodeError")

\* The members of an object after its "{"; a repeated key keeps the last value.
ParseMembers(toks, i, acc, depth, first) ==
    IF i > Len(toks) THEN Failed("JSONDecodeError")
    ELSE IF first /\ toks[i].t = "}" THEN Parsed(JObj(acc), i + 1)
    ELSE IF toks[i].t # "str" THEN Failed("JSONDecodeError")
    ELSE IF i + 1 > Len(toks) \/ toks[i + 1].t # ":" THEN Failed("JSONDecodeError")
    ELSE LET r == ParseValue(toks, i + 2, depth)
             acc2 == (toks[i].s :> r.val) @@ acc
         IN  IF r.exc # None THEN r
             ELSE IF r.next > Len(toks) THEN Failed("JSONDecodeError")
             ELSE IF toks[r.next].t = "," THEN ParseMembers(toks, r.next + 1, acc2, depth, FALSE)
             ELSE IF toks[r.next].t = "}" THEN Parsed(JObj(acc2), r.next + 1)
             ELSE Failed("JSONDecodeError")

\* The elements of an array after its "[".
ParseElements(toks, i, acc, depth, first) ==
    IF i > Len(toks) THEN Failed("JSONDecodeError")
    ELSE IF first /\ toks[i].t = "]" THEN Parsed(JArr(acc), i + 1)
    ELSE LET r == ParseValue(toks, i, depth)
             acc2 == Append(acc, r.val)
         IN  IF r.exc # None THEN r
             ELSE IF r.next > Len(toks) THEN Failed("JSONDecodeError")
             ELSE IF toks[r.next].t = "," THEN ParseElements(toks, r.next + 1, acc2, depth, FALSE)
             ELSE IF toks[r.next].t = "]" THEN Parsed(JArr(acc2), r.next + 1)
             ELSE Failed("JSONDecodeError")

\* raw_json_output: message.content is Optional[str].
NoContent == [none |-> TRUE, toks |-> <<>>]
Text(toks) == [none |-> FALSE, toks |-> toks]

\* json.loads(raw): None is a TypeError; text after the value is "Extra data".
json_loads(raw) ==
    IF raw.none THEN Failed("TypeError")
    ELSE LET r == ParseValue(raw.toks, 1, 0)
         IN  IF r.exc # None THEN r
             ELSE IF r.next <= Len(raw.toks) THEN Failed("JSONDecodeError")
             ELSE r

SetMax(S) == IF S = {} THEN 0
             ELSE LET x == CHOOSE y \in S : \A z \in S : z <= y IN x

RECURSIVE Nesting(_)
Nesting(v) ==
    IF v.ty \in {"obj", "arr"}
      THEN 1 + SetMax({Nesting(v.m[k]) : k \in DOMAIN v.m})
      ELSE 0

\* json.dumps(plan_data, indent=2) (line 180): the exception it raises, or None.
json_dumps(v) == IF Nesting(v) > RecursionLimit THEN "RecursionError" ELSE None

(***************************************************************************)
(* models.py: Meal, DailyPlan, MealPlan.                                   *)
(***************************************************************************)

DayNames == <<"monday", "tuesday", "wednesday", "thursday", "friday", "saturday", "sunday">>
Days == {DayNames[i] : i \in 1..Len(DayNames)}
MandatoryMeals == {"breakfast", "lunch", "dinner"}

Has(v, key) == v.ty = "obj" /\ key \in DOMAIN v.m

\* A required `str` field: present and a JSON string (any string, "" included).
ValidStr(v, key) == Has(v, key) /\ v.m[key].ty = "str"

\* Meal (lines 30-33).
ValidMeal(v) == ValidStr(v, "meal_name") /\ ValidStr(v, "recipe")
Meal(v) == [meal_name |-> v.m["meal_name"].s, recipe |-> v.m["recipe"].s]

\* snacks: Optional[Meal] = None (line 40): absent and null both give None.
NoSnacks(v) == ~Has(v, "snacks") \/ v.m["snacks"].ty = "null"

\* DailyPlan (lines 35-40).
ValidDailyPlan(v) ==
    /\ v.ty = "obj"
    /\ \A slot \in MandatoryMeals : Has(v, slot) /\ ValidMeal(v.m[slot])
    /\ NoSnacks(v) \/ ValidMeal(v.m["snacks"])

\* Optional[Meal]: <<>> is None, <<meal>> is a meal.
DailyPlan(v) ==
    [breakfast |-> Meal(v.m["breakfast"]), lunch |-> Meal(v.m["lunch"]),
     dinner |-> Meal(v.m["dinner"]),
     snacks |-> IF NoSnacks(v) THEN <<>> ELSE <<Meal(v.m["snacks"])>>]

\* MealPlan (lines 42-50): seven required DailyPlan fields; other keys are ignored.
ValidMealPlan(v) == \A d \in Days : Has(v, d) /\ ValidDailyPlan(v.m[d])

\* MealPlan(**plan_data) (line 167): `**` needs a mapping (TypeError otherwise),
\* then pydantic validates the fields (ValidationError).
MealPlan(plan_data) ==
    IF plan_data.ty # "obj" THEN [exc |-> "TypeError", plan |-> <<>>]
    ELSE IF ~ValidMealPlan(plan_data) THEN [exc |-> "ValidationError", plan |-> <<>>]
    ELSE [exc |-> None, plan |-> <<[d \in Days |-> DailyPlan(plan_data.m[d])]>>]

(***************************************************************************)
(* Replies a provider can send, built token by token.                      *)
(***************************************************************************)

RECURSIVE Commas(_)
Commas(parts) ==
    IF parts = <<>> THEN <<>>
    ELSE IF Len(parts) = 1 THEN parts[1]
    ELSE parts[1] \o <<Tok(",")>> \o Commas(Tail(parts))

\* {"k1": v1, "k2": v2, ...} from a sequence of <<key, value tokens>>.
ObjToks(members) ==
    <<Tok("{")>>
    \o Commas([i \in 1..Len(members) |->
                  <<StrTok(members[i][1]), Tok(":")>> \o members[i][2]])
    \o <<Tok("}")>>

MealToks(name, recipe) ==
    ObjToks(<< <<"meal_name", <<StrTok(name)>> >>, <<"recipe", <<StrTok(recipe)>> >> >>)

GoodMeal == MealToks("Oatmeal", "Boil oats.")
ThreeMeals == << <<"breakfast", GoodMeal>>, <<"lunch", GoodMeal>>, <<"dinner", GoodMeal>> >>
GoodDay == ObjToks(ThreeMeals)

\* Day objects a reply can carry.
DayVariants ==
    [good            |-> GoodDay,
     with_snacks     |-> ObjToks(ThreeMeals \o << <<"snacks", MealToks("Apple", "Slice it.")>> >>),
     null_snacks     |-> ObjToks(ThreeMeals \o << <<"snacks", <<Tok("null")>> >> >>),
     empty_snacks    |-> ObjToks(ThreeMeals \o << <<"snacks", MealToks("", "")>> >>),
     noname_snacks   |-> ObjToks(ThreeMeals \o << <<"snacks", MealToks("", "Slice it.")>> >>),
     text_snacks     |-> ObjToks(ThreeMeals \o << <<"snacks", <<StrTok("chips")>> >> >>),
     empty_name      |-> ObjToks(<< <<"breakfast", MealToks("", "Boil oats.")>>,
                                    <<"lunch", GoodMeal>>, <<"dinner", GoodMeal>> >>),
     empty_recipe    |-> ObjToks(<< <<"breakfast", GoodMeal>>, <<"lunch", GoodMeal>>,
                                    <<"dinner", MealToks("Soup", "")>> >>),
     no_lunch        |-> ObjToks(<< <<"breakfast", GoodMeal>>, <<"dinner", GoodMeal>> >>),
     no_recipe       |-> ObjToks(<< <<"breakfast", GoodMeal>>, <<"lunch", GoodMeal>>,
                                    <<"dinner", ObjToks(<< <<"meal_name", <<StrTok("Soup")>> >> >>)>> >>),
     null_name       |-> ObjToks(<< <<"breakfast", ObjToks(<< <<"meal_name", <<Tok("null")>> >>,
                                                              <<"recipe", <<StrTok("Boil oats.")>> >> >>)>>,
                                    <<"lunch", GoodMeal>>, <<"dinner", GoodMeal>> >>),
     null_day        |-> <<Tok("null")>>]

VariantNames == DOMAIN DayVariants

\* A seven-day reply whose day number k is the given variant.
PlanWith(k, variant) ==
    ObjToks([i \in 1..7 |-> <<DayNames[i], IF i = k THEN DayVariants[variant] ELSE GoodDay>>])

\* The same reply with day number k left out.
PlanWithout(k) ==
    ObjToks([i \in 1..6 |-> <<DayNames[IF i < k THEN i ELSE i + 1], GoodDay>>])

GoodPlan == PlanWith(1, "good")

RECURSIVE NestedArrays(_)
NestedArrays(n) ==
    IF n = 0 THEN <<>> ELSE <<Tok("[")>> \o NestedArrays(n - 1) \o <<Tok("]")>>

\* Days of the week the sample replies vary.
ProbeDays == {1, 7}

RawTexts ==
    { PlanWith(k, variant) : k \in ProbeDays, variant \in VariantNames }
    \cup { PlanWithout(k) : k \in ProbeDays }
    \cup { <<>>,
           <<Word("Sorry, I can't help")>>,
           <<Word("fence")>> \o GoodPlan \o <<Word("fence")>>,
           GoodPlan \o <<Word("Enjoy!")>>,
           SubSeq(GoodPlan, 1, Len(GoodPlan) - 1),
           ObjToks(<<>>),
           <<Tok("[")>> \o GoodPlan \o <<Tok("]")>>,
           <<StrTok("plan")>>,
           <<Tok("null")>>,
           PlanWith(1, "good") \o <<Tok(",")>>,
           NestedArrays(RecursionLimit),
           NestedArrays(RecursionLimit + 1),
           NestedArrays(RecursionLimit + 2) }

\* What the provider call of lines 132-153 can come to: the call raises, or a
\* response arrives whose content is a text or is missing.
ApiResponses ==
    { [raises |-> TRUE, raw |-> NoContent], [raises |-> FALSE, raw |-> NoContent] }
    \cup { [raises |-> FALSE, raw |-> Text(t)] : t \in RawTexts }

(***************************************************************************)
(* generate_meal_plan: meal_generator.py lines 118-188, and the button     *)
(* handler of app.py lines 63-95 that calls it.                            *)
(***************************************************************************)

Log(event, dump) == [event |-> event, dump |-> dump]

\* The generate_meal_plan call in progress: its locals, what it has printed,
\* how often it has invoked the provider, and how it ended (exc: the exception
\* that reached the caller; plan: the returned Optional[MealPlan]).
NoCall ==
    [prompt |-> None, api_calls |-> 0, raw_json_output |-> NoContent,
     log |-> <<>>, exc |-> None, plan |-> <<>>]

Supported(cl) == cl \in {"OpenAI", "Anthropic"}

\* app.py lines 63-88: the button is pressed; the handler warns, or builds the
\* UserProfile and calls generate_meal_plan.
GenerateButton ==
    /\ pc = "ready"
    /\ \E form \in FormSubmissions :
         IF NothingFilledIn(form)
           THEN /\ ui' = "warning"
                /\ pc' = "shown"
                /\ UNCHANGED user_profile
           ELSE /\ user_profile' = <<ProfileOf(form)>>
                /\ pc' = "generate"
                /\ UNCHANGED ui
    /\ call' = NoCall
    /\ UNCHANGED <<installed, environ, ctor, client, MODEL_NAME, constructed,
                   attempted, import_error>>

\* Lines 120-122: the guard on the selected client and model.
EnterGenerate ==
    /\ pc = "generate"
    /\ IF client = None \/ MODEL_NAME = None
         THEN /\ call' = [call EXCEPT !.log = Append(@, Log("not_initialized", "none"))]
              /\ pc' = "returned"
         ELSE /\ pc' = "build"
              /\ UNCHANGED call
    /\ UNCHANGED <<installed, environ, ctor, client, MODEL_NAME, constructed,
                   attempted, import_error, user_profile, ui>>

\* Lines 124-127: build_llm_prompt(profile), outside the try block: what it
\* raises reaches the caller.
BuildPrompt ==
    /\ pc = "build"
    /\ \E schema \in SchemaOutcomes :
         LET built == build_llm_prompt(user_profile[1], schema)
         IN  IF built.exc # None
               THEN /\ call' = [call EXCEPT !.exc = built.exc]
                    /\ pc' = "returned"
               ELSE /\ call' = [call EXCEPT !.prompt = built.value,
                                            !.log = Append(@, Log("sending_prompt", "none"))]
                    /\ pc' = "request"
    /\ UNCHANGED <<installed, environ, ctor, client, MODEL_NAME, constructed,
                   attempted, import_error, user_profile, ui>>

\* Lines 129-161: dispatch on the client type, the provider call and the
\* extraction of the reply text; the handler of lines 186-188 catches what
\* the call or the extraction raises.
CallProvider ==
    /\ pc = "request"
    /\ IF ~Supported(client)
         THEN /\ call' = [call EXCEPT !.log = Append(@, Log("unsupported_client", "none"))]
              /\ pc' = "returned"
         ELSE \E api \in ApiResponses :
                IF api.raises \/ (client = "Anthropic" /\ api.raw.none)
                  THEN \* create() raises, or message.content[0].text does
                       /\ call' = [call EXCEPT !.api_calls = @ + 1,
                                               !.log = Append(@, Log("api_error", "none"))]
                       /\ pc' = "returned"
                  ELSE /\ call' = [call EXCEPT !.api_calls = @ + 1,
                                               !.raw_json_output = api.raw,
                                               !.log = Append(@, Log("received_raw", "none"))]
                       /\ pc' = "parse"
    /\ UNCHANGED <<installed, environ, ctor, client, MODEL_NAME, constructed,
                   attempted, import_error, user_profile, ui>>

\* ParseOutcome with the two except clauses of lines 170 and 176 in the other
\* order: JSONDecodeError is an Exception, so the generic clause takes it.
ParseOutcome_generic_first(raw) ==
    LET decoded == json_loads(raw)
        validated == MealPlan(decoded.val)
    IN  IF decoded.exc # None
          THEN [log |-> <<Log("validate_error", "raw_json_output")>>, plan |-> <<>>]
        ELSE IF validated.exc = None
          THEN [log |-> <<Log("validated", "none")>>, plan |-> validated.plan]
        ELSE IF json_dumps(decoded.val) = None
          THEN [log |-> <<Log("validate_error", "plan_data")>>, plan |-> <<>>]
        ELSE [log |-> <<Log("validate_error", "none"), Log("api_error", "none")>>,
              plan |-> <<>>]

\* What lines 164-184 print and return for a reply, with the handler of lines
\* 186-188 behind them.
ParseOutcome(raw) ==
    LET decoded == json_loads(raw)
        validated == MealPlan(decoded.val)
    IN  IF decoded.exc = "JSONDecodeError"
          THEN [log |-> <<Log("decode_error", "raw_json_output")>>, plan |-> <<>>]
        ELSE IF decoded.exc # None
          THEN \* except Exception; plan_data is unbound: NameError at line 180
               [log |-> <<Log("validate_error", "raw_json_output")>>, plan |-> <<>>]
        ELSE IF validated.exc = None
          THEN [log |-> <<Log("validated", "none")>>, plan |-> validated.plan]
        ELSE IF json_dumps(decoded.val) = None
          THEN [log |-> <<Log("validate_error", "plan_data")>>, plan |-> <<>>]
        ELSE \* json.dumps raises inside the handler: caught at line 186
             [log |-> <<Log("validate_error", "none"), Log("api_error", "none")>>,
              plan |-> <<>>]

\* Lines 164-184.
ParseAndValidate ==
    /\ pc = "parse"
    /\ LET out == ParseOutcome(call.raw_json_output)
       IN  call' = [call EXCEPT !.log = @ \o out.log, !.plan = out.plan]
    /\ pc' = "returned"
    /\ UNCHANGED <<installed, environ, ctor, client, MODEL_NAME, constructed,
                   attempted, import_error, user_profile, ui>>

\* app.py lines 90-95; an exception out of generate_meal_plan ends the script
\* run with the exception shown.
ShowResult ==
    /\ pc = "returned"
    /\ ui' = IF call.exc # None THEN "exception"
             ELSE IF call.plan # <<>> THEN "success" ELSE "error"
    /\ pc' = "shown"
    /\ UNCHANGED <<installed, environ, ctor, client, MODEL_NAME, constructed,
                   attempted, import_error, user_profile, call>>

\* The script run is over: its locals are gone, and the next interaction
\* runs app.py from the top (no st.session_state is kept).
Rerun ==
    /\ pc = "shown"
    /\ pc' = "ready"
    /\ user_profile' = <<>>
    /\ call' = NoCall
    /\ ui' = ""
    /\ UNCHANGED <<installed, environ, ctor, client, MODEL_NAME, constructed,
                   attempted, import_error>>

(***************************************************************************)
(* Specifications.                                                         *)
(***************************************************************************)

\* Every environment the process can be started in.
Environments ==
    [installed : [openai : BOOLEAN, anthropic : BOOLEAN],
     environ : [OPENAI_API_KEY : KeyValues, ANTHROPIC_API_KEY : KeyValues],
     ctor : [OpenAI : CtorOutcomes, Anthropic : CtorOutcomes]]

\* The environments the whole program is run in: every combination of
\* installed libraries and set / unset credentials, with an OpenAI constructor
\* that returns or raises OpenAIError.
RunEnvironments ==
    { e \in Environments :
        /\ e.environ.OPENAI_API_KEY # ""
        /\ e.environ.ANTHROPIC_API_KEY # ""
        /\ e.ctor.OpenAI # "TypeError"
        /\ e.ctor.Anthropic = "ok" }

Started(E) ==
    /\ \E e \in E : installed = e.installed /\ environ = e.environ /\ ctor = e.ctor
    /\ pc = "start"
    /\ client = None
    /\ MODEL_NAME = None
    /\ constructed = {}
    /\ attempted = {}
    /\ import_error = None
    /\ user_profile = <<>>
    /\ call = NoCall
    /\ ui = ""

Init == Started(RunEnvironments)

Select == ImportModule \/ SelectOpenAI \/ SelectAnthropic

Run == GenerateButton \/ EnterGenerate \/ BuildPrompt \/ CallProvider
         \/ ParseAndValidate \/ ShowResult \/ Rerun

Next == Select \/ Run

\* The program: import (provider selection), then button presses.
Spec == Init /\ [][Next]_vars

\* Provider selection alone, in every environment.
InitSelect == Started(Environments)
SpecSelect == InitSelect /\ [][Select]_vars

\* generate_meal_plan as a function of the module globals it reads: the
\* module is loaded and `client` / `MODEL_NAME` hold any values, as when a
\* test binds a stub client.
ClientValues == {None, "OpenAI", "Anthropic", "Mock"}
ModelValues == {None, OPENAI_MODEL, ANTHROPIC_MODEL}

InitStub ==
    /\ installed = [openai |-> TRUE, anthropic |-> TRUE]
    /\ environ = [OPENAI_API_KEY |-> None, ANTHROPIC_API_KEY |-> None]
    /\ ctor = [OpenAI |-> "ok", Anthropic |-> "ok"]
    /\ pc = "ready"
    /\ client \in ClientValues
    /\ MODEL_NAME \in ModelValues
    /\ constructed = {}
    /\ attempted = {"OpenAI", "Anthropic"}
    /\ import_error = None
    /\ user_profile = <<>>
    /\ call = NoCall
    /\ ui = ""

SpecStub == InitStub /\ [][Run]_vars

(***************************************************************************)
(* Properties.                                                             *)
(***************************************************************************)

Reported(event) == \E i \in 1..Len(call.log) : call.log[i].event = event
ReportedWith(event, dump) == \E i \in 1..Len(call.log) : call.log[i] = Log(event, dump)

\* generate_meal_plan has ended, by return or by exception.
CallEnded == pc = "returned"
\* ... and it had received a reply text and run it through lines 164-184.
ParseEnded == CallEnded /\ Reported("received_raw")

ReplyDecoded == json_loads(call.raw_json_output)
ReplyValue == ReplyDecoded.val

\* C1: every generate_meal_plan call ends by returning a validated MealPlan or
\* None; no exception of any step reaches the caller.
C1_NoExceptionReachesCaller ==
    CallEnded =>
        /\ call.exc = None
        /\ call.plan # <<>> => Reported("validated")

\* A string field that is present, a string, and empty.
EmptyField(v, key) == ValidStr(v, key) /\ v.m[key].s = ""
EmptyMeal(v) == EmptyField(v, "meal_name") \/ EmptyField(v, "recipe")

\* The decoded reply lacks a day, or a day lacks a mandatory meal, or a
\* mandatory meal has an empty meal_name or recipe.
Incomplete(v) ==
    \E d \in Days :
        \/ ~Has(v, d)
        \/ \E slot \in MandatoryMeals :
              \/ ~Has(v.m[d], slot)
              \/ EmptyMeal(v.m[d].m[slot])

\* C2: a returned MealPlan has all seven days, each with breakfast, lunch and
\* dinner of non-empty meal_name and recipe; a decoded reply lacking any of
\* that yields no plan.
C2_ReturnedPlanComplete ==
    /\ call.plan # <<>> =>
          /\ DOMAIN call.plan[1] = Days
          /\ \A d \in Days : \A slot \in MandatoryMeals :
                /\ call.plan[1][d][slot].meal_name # ""
                /\ call.plan[1][d][slot].recipe # ""
    /\ (ParseEnded /\ ReplyDecoded.exc = None /\ ReplyValue.ty = "obj" /\ Incomplete(ReplyValue))
          => call.plan = <<>>

\* The decoded reply has a day whose snacks is a meal with an empty
\* meal_name or recipe.
EmptySnacks(v) ==
    \E d \in Days : Has(v, d) /\ Has(v.m[d], "snacks") /\ EmptyMeal(v.m[d].m["snacks"])

\* C3: a day without snacks is accepted as a day with no snack; a day whose
\* snacks has an empty meal_name or recipe is rejected.
C3_SnacksAbsentOrNonEmpty ==
    /\ call.plan # <<>> =>
          \A d \in Days : ~Has(ReplyValue.m[d], "snacks") => call.plan[1][d].snacks = <<>>
    /\ (ParseEnded /\ ReplyDecoded.exc = None /\ ReplyValue.ty = "obj" /\ EmptySnacks(ReplyValue))
          => call.plan = <<>>

SelectionEnded == pc \notin {"start", "select_openai", "select_anthropic"}

\* C4: provider selection never ends with an exception: a candidate whose
\* client cannot be constructed is only skipped, and selection ends with a
\* client and its model name or with neither.
C4_SelectionNeverRaises ==
    /\ pc # "crashed"
    /\ import_error = None
    /\ SelectionEnded => (client = None <=> MODEL_NAME = None)

Credential(p) == IF p = "OpenAI" THEN environ.OPENAI_API_KEY ELSE environ.ANTHROPIC_API_KEY
Library(p) == IF p = "OpenAI" THEN installed.openai ELSE installed.anthropic
ModelOf(p) == IF p = "OpenAI" THEN OPENAI_MODEL ELSE ANTHROPIC_MODEL

\* The candidate's credential is present and its client can be constructed.
Usable(p) == ~Falsy(Credential(p)) /\ Library(p) /\ ctor[p] = "ok"

\* C5: selection returns the first usable candidate in the order OpenAI,
\* Anthropic, with its fixed model name; it constructs no client for an absent
\* credential and does not attempt Anthropic after OpenAI succeeded.
C5_FirstUsableCandidate ==
    /\ SelectionEnded =>
          \A i \in 1..Len(Providers) :
             (Usable(Providers[i]) /\ \A j \in 1..(i - 1) : ~Usable(Providers[j]))
                => client = Providers[i] /\ MODEL_NAME = ModelOf(Providers[i])
    /\ \A p \in constructed : ~Falsy(Credential(p))
    /\ client = "OpenAI" => "Anthropic" \notin attempted

\* C6: without a client or a model name, and with a client of an unrecognized
\* type, generate_meal_plan returns None and makes no provider call.
C6_NoProviderNoCall ==
    (CallEnded /\ (client = None \/ MODEL_NAME = None \/ ~Supported(client)))
        => call.exc = None /\ call.plan = <<>> /\ call.api_calls = 0

\* C7: a call with a selected, supported provider invokes the provider exactly
\* once, whatever fails afterwards, and returns a plan only if it validated.
C7_ExactlyOneProviderCall ==
    /\ call.api_calls <= 1
    /\ (CallEnded /\ client # None /\ MODEL_NAME # None /\ Supported(client))
          => call.api_calls = 1
    /\ call.plan # <<>> => Reported("validated") /\ ~Reported("validate_error")

\* C8 (as claimed): a reply that cannot be decoded is reported as malformed
\* JSON with the raw text, a decoded reply that fails the schema as a schema
\* mismatch with the decoded structure; neither is reported as the other.
C8_ClassifiedByStage ==
    (ParseEnded /\ ~call.raw_json_output.none) =>
        /\ ReplyDecoded.exc # None =>
              /\ ReportedWith("decode_error", "raw_json_output")
              /\ ~Reported("validate_error")
              /\ call.plan = <<>>
        /\ (ReplyDecoded.exc = None /\ MealPlan(ReplyValue).exc # None) =>
              /\ ReportedWith("validate_error", "plan_data")
              /\ ~Reported("decode_error")
              /\ call.plan = <<>>

\* C8 (amended): classification follows the exception class.  JSONDecodeError
\* is reported as malformed JSON with the raw text; any other exception of
\* json.loads is reported as a schema mismatch with the raw text; a decoded
\* reply that fails the schema is reported as a schema mismatch, with the
\* decoded structure unless json.dumps fails on it, and never as malformed
\* JSON.  None of them returns a plan.
C8_ClassifiedByException ==
    ParseEnded =>
        /\ ReplyDecoded.exc = "JSONDecodeError" =>
              /\ ReportedWith("decode_error", "raw_json_output")
              /\ ~Reported("validate_error")
              /\ call.plan = <<>>
        /\ ReplyDecoded.exc \notin {None, "JSONDecodeError"} =>
              /\ ReportedWith("validate_error", "raw_json_output")
              /\ ~Reported("decode_error")
              /\ call.plan = <<>>
        /\ (ReplyDecoded.exc = None /\ MealPlan(ReplyValue).exc # None) =>
              /\ Reported("validate_error")
              /\ ~Reported("decode_error")
              /\ ReportedWith("validate_error", "plan_data") \/ json_dumps(ReplyValue) # None
              /\ call.plan = <<>>

\* C8 witness: a reply json.loads rejects with an exception other than
\* JSONDecodeError has been reported as a schema mismatch with the raw text.
C8_Witness ==
    /\ ParseEnded
    /\ ReplyDecoded.exc = "RecursionError"
    /\ ReportedWith("validate_error", "raw_json_output")
    /\ call.plan = <<>>

\* All four lists empty and no calorie target.
Insufficient(profile) ==
    /\ profile.dietary_restrictions = <<>>
    /\ profile.allergies = <<>>
    /\ profile.dislikes = <<>>
    /\ profile.goals = <<>>
    /\ profile.target_calories = NoInt

\* C9: the button handler never calls generate_meal_plan with a profile whose
\* four lists are empty and whose calorie target is unset.
C9_NoInsufficientProfileSubmitted ==
    pc = "generate" => ~Insufficient(user_profile[1])

\* Position of the first occurrence of `sub` in `s` (0 if there is none).
IndexOf(s, sub) ==
    LET hits == {i \in 1..(Len(s) - Len(sub) + 1) : SubSeq(s, i, i + Len(sub) - 1) = sub}
    IN  IF hits = {} THEN 0 ELSE CHOOSE i \in hits : \A j \in hits : i <= j

Contains(s, sub) == IndexOf(s, sub) > 0

\* A list field as it is to appear: its items joined, or the fallback text.
Rendered(items, fallback) == IF items = <<>> THEN fallback ELSE join(items)

\* build_llm_prompt has been called and has ended.
BuildEnded == pc = "request" \/ (CallEnded /\ call.exc # None)

\* C10: build_llm_prompt returns a string that lists dietary restrictions,
\* allergies, dislikes, goals, then the optional target calories, cuisines,
\* complexity and cook-time limit; lists are joined by ', ', empty lists read
\* 'None' ('None specified' for goals), and an optional field has a line only
\* if it is set.
C10_PromptListsProfile ==
    BuildEnded =>
        LET profile == user_profile[1]
            prompt == call.prompt
            at == [label \in {"- Dietary Restrictions: ", "- Allergies: ", "- Dislikes: ",
                              "- Goals: ", "- Target Daily Calories: ", "- Preferred Cuisines: ",
                              "- Desired Complexity: ", "- Max Cook Time Per Meal: "}
                      |-> IndexOf(prompt, label)]
        IN  /\ call.exc = None
            /\ prompt # None
            /\ Contains(prompt, "- Dietary Restrictions: "
                                \o Rendered(profile.dietary_restrictions, "None") \o "\n")
            /\ Contains(prompt, "- Allergies: " \o Rendered(profile.allergies, "None") \o "\n")
            /\ Contains(prompt, "- Dislikes: " \o Rendered(profile.dislikes, "None") \o "\n")
            /\ Contains(prompt, "- Goals: " \o Rendered(profile.goals, "None specified") \o "\n")
            /\ 0 < at["- Dietary Restrictions: "]
            /\ at["- Dietary Restrictions: "] < at["- Allergies: "]
            /\ at["- Allergies: "] < at["- Dislikes: "]
            /\ at["- Dislikes: "] < at["- Goals: "]
            /\ at["- Target Daily Calories: "] > 0 =>
                  /\ profile.target_calories # NoInt
                  /\ at["- Goals: "] < at["- Target Daily Calories: "]
            /\ at["- Preferred Cuisines: "] > 0 =>
                  /\ profile.preferences.cuisine_types # <<>>
                  /\ at["- Goals: "] < at["- Preferred Cuisines: "]
                  /\ at["- Target Daily Calories: "] < at["- Preferred Cuisines: "]
                  /\ Contains(prompt, "- Preferred Cuisines: "
                                      \o join(profile.preferences.cuisine_types) \o "\n")
            /\ at["- Desired Complexity: "] > 0 =>
                  /\ profile.preferences.complexity # None
                  /\ at["- Preferred Cuisines: "] < at["- Desired Complexity: "]
            /\ at["- Max Cook Time Per Meal: "] > 0 =>
                  /\ profile.preferences.cook_time_limit_minutes # NoInt
                  /\ at["- Desired Complexity: "] < at["- Max Cook Time Per Meal: "]

====
